---- MODULE Spec2Model ----
(***************************************************************************)
(* Model of src/processing/conv.rs (ndarray-vision): the ConvolutionExt    *)
(* implementation for Array3<T> -- kernel_centre, conv2d, conv2d_inplace.  *)
(*                                                                         *)
(* A volume (Array3<T>) is a record [rows, cols, chans, data] where data   *)
(* maps every index <<r, c, ch>> (0-based) to an element.  The element     *)
(* type T is modelled by the integers; the values drawn are small enough   *)
(* that no element arithmetic overflows.                                   *)
(*                                                                         *)
(* usize values are modelled by their signed residue: a negative integer n *)
(* stands for the wrapped value 2^w + n that a release build computes when *)
(* a subtraction underflows; a debug build panics there instead.           *)
(***************************************************************************)
EXTENDS Integers, Sequences, FiniteSets, TLC

VARIABLES input, kernel, pc, op, ret, pre, visited, written, centre

vars == <<input, kernel, pc, op, ret, pre, visited, written, centre>>

(***************************************************************************)
(* Bounds of the inputs drawn by Init.                                     *)
(***************************************************************************)
MaxDim == 4
MaxKernelDim == 4
MaxChans == 2
MaxInputCells == 6
MaxKernelCells == 4

ElemVals == {0, 1}
Builds == {"debug", "release"}

Cells(r, c, ch) == (0 .. r - 1) \X (0 .. c - 1) \X (0 .. ch - 1)

Volume(r, c, ch, d) == [rows |-> r, cols |-> c, chans |-> ch, data |-> d]

VolumesOf(r, c, ch) == { Volume(r, c, ch, d) : d \in [Cells(r, c, ch) -> ElemVals] }

\* Array3::zeros(shape), line 51
zeros(r, c, ch) == Volume(r, c, ch, [x \in Cells(r, c, ch) |-> 0])

\* Row-major construction of a single-channel volume from a sequence of rows
\* (Image::from_shape_data / arr3 in the tests).
FromRows(rs) ==
    Volume(Len(rs), Len(rs[1]), 1,
           [x \in Cells(Len(rs), Len(rs[1]), 1) |-> rs[x[1] + 1][x[2] + 1]])

\* Shapes drawn for the input and for the kernel: every extent is at least 1
\* (ndarray's windows rejects a window with an extent of 0).
InputShapes ==
    { s \in (1 .. MaxDim) \X (1 .. MaxDim) \X (1 .. MaxChans) :
        s[1] * s[2] * s[3] <= MaxInputCells }

KernelShapes ==
    { s \in (1 .. MaxKernelDim) \X (1 .. MaxKernelDim) \X (1 .. MaxChans) :
        s[1] * s[2] * s[3] <= MaxKernelCells }

InputVolumes == UNION { VolumesOf(s[1], s[2], s[3]) : s \in InputShapes }

KernelVolumes == UNION { VolumesOf(s[1], s[2], s[3]) : s \in KernelShapes }

(***************************************************************************)
(* The fixtures of the unit tests.                                         *)
(***************************************************************************)
\* tests::basic_conv, input_pixels
ExampleInput ==
    FromRows(<< <<1, 1, 1, 0, 0>>,
                <<0, 1, 1, 1, 0>>,
                <<0, 0, 1, 1, 1>>,
                <<0, 0, 1, 1, 0>>,
                <<0, 1, 1, 0, 0>> >>)

\* tests::basic_conv, kern
ExampleKernel ==
    FromRows(<< <<1, 0, 1>>,
                <<0, 1, 0>>,
                <<1, 0, 1>> >>)

\* tests::basic_conv, output_pixels
ExampleOutput ==
    FromRows(<< <<4, 3, 4>>,
                <<2, 4, 3>>,
                <<2, 3, 4>> >>)

\* tests::basic_conv_inplace, output_pixels
ExampleInplaceOutput ==
    FromRows(<< <<1, 1, 1, 0, 0>>,
                <<0, 4, 3, 4, 0>>,
                <<0, 2, 4, 3, 1>>,
                <<0, 2, 3, 4, 0>>,
                <<0, 1, 1, 0, 0>> >>)

\* tests::basic_conv and tests::basic_conv_inplace; tests::bad_dimensions:
\* Image::<f64, RGB>::new(5, 5) with bad_kern (2,2,2)
TestFixtures ==
    { <<ExampleInput, ExampleKernel>>,
      <<zeros(5, 5, 3), zeros(2, 2, 2)>> }

(***************************************************************************)
(* kernel_centre                                                           *)
(***************************************************************************)
\* A kernel_centre without the correction for even extents.
mutant_kernel_centre_no_even(rows, cols) == <<rows \div 2, cols \div 2>>

\* fn kernel_centre(rows, cols) -> (usize, usize); for rows, cols >= 1 the
\* subtraction never underflows.
kernel_centre(rows, cols) ==
    LET row_offset == rows \div 2 - (IF rows % 2 = 0 THEN 1 ELSE 0)
        col_offset == cols \div 2 - (IF cols % 2 = 0 THEN 1 ELSE 0)
    IN  <<row_offset, col_offset>>

(***************************************************************************)
(* conv2d                                                                  *)
(***************************************************************************)
NoVolume == <<>>

\* What a call produced: kind is "Ok", one of the two Error variants, or
\* "Panic"; vol is the returned volume when kind = "Ok"; visited is the set
\* of window indices the Zip closure ran for; centre is the kernel centre
\* the call computed (<<>> when it returned before computing one).
Outcome(k, v, vis, cen) == [kind |-> k, vol |-> v, visited |-> vis, centre |-> cen]

\* An output shape of one cell per window that fits ("valid" convolution).
mutant_OutputShape_valid(self, kern) ==
    <<self.rows - (kern.rows - 1), self.cols - (kern.cols - 1), self.chans>>

\* let shape = (self.shape()[0] - row_offset * 2, self.shape()[1] - col_offset * 2,
\*              self.shape()[2]); a negative component is a wrapped usize.
OutputShape(self, kern) ==
    LET offs == kernel_centre(kern.rows, kern.cols)
    IN  <<self.rows - offs[1] * 2, self.cols - offs[2] * 2, self.chans>>

\* usize subtraction overflowed: a debug build panics on it
Underflowed(shape) == shape[1] < 0 \/ shape[2] < 0

\* shape.0 > 0 && shape.1 > 0 on usize: a wrapped value is a large positive one
ShapeIsPositive(shape) == shape[1] # 0 /\ shape[2] # 0

\* Self::zeros(shape) panics when the product of the axis lengths overflows
\* isize, which every wrapped extent (>= 2^w - 2 * offset) makes it do.
ZerosOverflows(shape) == shape[1] < 0 \/ shape[2] < 0

\* self.windows(kernel.dim()): the number of windows along an axis of
\* length n for a window of length ws (0 when the window does not fit).
WindowCount(n, ws) == IF n < ws THEN 0 ELSE n - ws + 1

\* The indices (i, j) that Zip::indexed(self.windows(..)) yields, row-major.
WindowIndices(self, kern) ==
    LET wr == WindowCount(self.rows, kern.rows)
        wc == WindowCount(self.cols, kern.cols)
    IN  [k \in 1 .. wr * wc |-> <<(k - 1) \div wc, (k - 1) % wc>>]

RECURSIVE SumFirst(_, _)
\* f[0] + ... + f[n-1]
SumFirst(f, n) == IF n = 0 THEN 0 ELSE SumFirst(f, n - 1) + f[n - 1]

\* A product with the kernel flipped along both spatial axes.
mutant_WindowProduct_flipped(self, kern, i, j) ==
    [x \in Cells(kern.rows, kern.cols, kern.chans) |->
        self.data[<<i + x[1], j + x[2], x[3]>>]
            * kern.data[<<kern.rows - 1 - x[1], kern.cols - 1 - x[2], x[3]>>]]

\* let mult = &window * &kernel; the window has its top-left corner at (i, j)
WindowProduct(self, kern, i, j) ==
    [x \in Cells(kern.rows, kern.cols, kern.chans) |->
        self.data[<<i + x[1], j + x[2], x[3]>>] * kern.data[x]]

\* mult.sum_axis(Axis(0)).sum_axis(Axis(0)): rows are summed away first,
\* then columns; one scalar per channel is left.
WindowSums(self, kern, i, j) ==
    LET mult == WindowProduct(self, kern, i, j)
        rowsSummed == [y \in (0 .. kern.cols - 1) \X (0 .. kern.chans - 1) |->
                          SumFirst([a \in 0 .. kern.rows - 1 |-> mult[<<a, y[1], y[2]>>]],
                                   kern.rows)]
    IN  [ch \in 0 .. kern.chans - 1 |->
            SumFirst([b \in 0 .. kern.cols - 1 |-> rowsSummed[<<b, ch>>]], kern.cols)]

\* result.slice_mut(s![i, j, ..]).assign(&sums)
AssignSums(result, i, j, sums) ==
    [result EXCEPT !.data =
        [x \in DOMAIN @ |-> IF x[1] = i /\ x[2] = j THEN sums[x[3]] ELSE @[x]]]

RECURSIVE ApplyWindows(_, _, _, _)
\* The Zip closure run for the first k window indices, starting from result.
ApplyWindows(self, kern, result, k) ==
    IF k = 0 THEN result
    ELSE LET p == WindowIndices(self, kern)[k]
         IN  AssignSums(ApplyWindows(self, kern, result, k - 1), p[1], p[2],
                        WindowSums(self, kern, p[1], p[2]))

\* s![i, j, ..] panics when (i, j) is not an index of result
SliceOutOfBounds(self, kern, shape) ==
    \E k \in DOMAIN WindowIndices(self, kern) :
        \/ WindowIndices(self, kern)[k][1] >= shape[1]
        \/ WindowIndices(self, kern)[k][2] >= shape[2]

\* The else branch of conv2d: the channel counts are equal.
conv2d_matched(self, kern, build) ==
    LET offs == kernel_centre(kern.rows, kern.cols)
        shape == OutputShape(self, kern)
        idx == WindowIndices(self, kern)
    IN  IF build = "debug" /\ Underflowed(shape)
        THEN Outcome("Panic", NoVolume, {}, offs)
        ELSE IF ShapeIsPositive(shape)
             THEN IF ZerosOverflows(shape) \/ SliceOutOfBounds(self, kern, shape)
                  THEN Outcome("Panic", NoVolume, {}, offs)
                  ELSE Outcome("Ok",
                               ApplyWindows(self, kern,
                                            zeros(shape[1], shape[2], shape[3]),
                                            Len(idx)),
                               { idx[k] : k \in DOMAIN idx }, offs)
             ELSE Outcome("InvalidDimensions", NoVolume, {}, offs)

\* A conv2d that validates the output extents before the channel counts.
mutant_conv2d_shape_first(self, kern, build) ==
    IF ~ShapeIsPositive(OutputShape(self, kern))
    THEN Outcome("InvalidDimensions", NoVolume, {}, <<>>)
    ELSE IF self.chans # kern.chans
         THEN Outcome("ChannelDimensionMismatch", NoVolume, {}, <<>>)
         ELSE conv2d_matched(self, kern, build)

conv2d(self, kern, build) ==
    IF self.chans # kern.chans
    THEN Outcome("ChannelDimensionMismatch", NoVolume, {}, <<>>)
    ELSE conv2d_matched(self, kern, build)

(***************************************************************************)
(* conv2d_inplace                                                          *)
(***************************************************************************)
\* self.indexed_iter_mut() yields every index of self in row-major (logical)
\* order; this is the part of that order that lies in row r.
IndexedIterRow(self, r) ==
    [k \in 1 .. self.cols * self.chans |->
        <<r, (k - 1) \div self.chans, (k - 1) % self.chans>>]

\* A loop body that reads data at d instead of at the centred index.
mutant_WriteOne_uncentred(acc, data, cen, d) ==
    IF d[1] < cen[1] \/ d[2] < cen[2]
    THEN acc
    ELSE IF d \in DOMAIN data.data
         THEN [vol |-> [acc.vol EXCEPT !.data[d] = data.data[d]],
               written |-> acc.written \cup {d}]
         ELSE acc

\* One pass of the loop body for element d of acc.vol; acc.written collects
\* the indices assigned to.
WriteOne(acc, data, cen, d) ==
    IF d[1] < cen[1] \/ d[2] < cen[2]
    THEN acc
    ELSE LET centred == <<d[1] - cen[1], d[2] - cen[2], d[3]>>
         IN  IF centred \in DOMAIN data.data
             THEN [vol |-> [acc.vol EXCEPT !.data[d] = data.data[centred]],
                   written |-> acc.written \cup {d}]
             ELSE acc

RECURSIVE WriteRow(_, _, _, _, _)
\* The for loop run for the first k elements of row r, starting from acc.
WriteRow(acc, data, cen, r, k) ==
    IF k = 0 THEN acc
    ELSE WriteOne(WriteRow(acc, data, cen, r, k - 1), data, cen,
                  IndexedIterRow(acc.vol, r)[k])

RECURSIVE WriteBack(_, _, _, _)
\* The for loop run for the first n rows of self.
WriteBack(self, data, cen, n) ==
    IF n = 0 THEN [vol |-> self, written |-> {}]
    ELSE WriteRow(WriteBack(self, data, cen, n - 1), data, cen, n - 1,
                  self.cols * self.chans)

\* A conv2d_inplace that clears the buffer before it calls conv2d.
mutant_conv2d_inplace_clears(self, kern, build) ==
    LET data == conv2d(self, kern, build)
    IN  IF data.kind # "Ok"
        THEN [kind |-> data.kind, vol |-> zeros(self.rows, self.cols, self.chans),
              written |-> {}, visited |-> data.visited, centre |-> data.centre]
        ELSE LET cen == kernel_centre(kern.rows, kern.cols)
                 done == WriteBack(self, data.vol, cen, self.rows)
             IN  [kind |-> "Ok", vol |-> done.vol, written |-> done.written,
                  visited |-> data.visited, centre |-> cen]

\* Returns the outcome (vol: self after the call) and the indices written.
conv2d_inplace(self, kern, build) ==
    LET data == conv2d(self, kern, build)
    IN  IF data.kind # "Ok"
        THEN [kind |-> data.kind, vol |-> self, written |-> {},
              visited |-> data.visited, centre |-> data.centre]
        ELSE LET cen == kernel_centre(kern.rows, kern.cols)
                 done == WriteBack(self, data.vol, cen, self.rows)
             IN  [kind |-> "Ok", vol |-> done.vol, written |-> done.written,
                  visited |-> data.visited, centre |-> cen]

(***************************************************************************)
(* The state machine: a caller holds an input and a kernel and calls one   *)
(* of the two operations.                                                  *)
(***************************************************************************)
Init ==
    /\ \E pair \in (InputVolumes \X KernelVolumes) \cup TestFixtures :
          /\ input = pair[1]
          /\ kernel = pair[2]
          /\ pre = pair[1]
    /\ pc = "ready"
    /\ op = "none"
    /\ ret = [kind |-> "none", vol |-> NoVolume]
    /\ visited = {}
    /\ written = {}
    /\ centre = <<>>

\* input.conv2d(kernel.view())
Conv2d ==
    /\ pc = "ready"
    /\ \E build \in Builds :
          LET r == conv2d(input, kernel, build)
          IN  /\ ret' = [kind |-> r.kind, vol |-> r.vol]
              /\ visited' = r.visited
              /\ centre' = r.centre
    /\ pc' = "returned"
    /\ op' = "conv2d"
    /\ pre' = input
    /\ UNCHANGED <<input, kernel, written>>

\* input.conv2d_inplace(kernel.view())
Conv2dInplace ==
    /\ pc = "ready"
    /\ \E build \in Builds :
          LET r == conv2d_inplace(input, kernel, build)
          IN  /\ ret' = [kind |-> r.kind, vol |-> NoVolume]
              /\ input' = r.vol
              /\ visited' = r.visited
              /\ written' = r.written
              /\ centre' = r.centre
    /\ pc' = "returned"
    /\ op' = "conv2d_inplace"
    /\ pre' = input
    /\ UNCHANGED kernel

Next == Conv2d \/ Conv2dInplace

Spec == Init /\ [][Next]_vars

(***************************************************************************)
(* Reference notions used by the properties.                               *)
(***************************************************************************)
Returned(o) == pc = "returned" /\ op = o

ChannelsMatch == pre.chans = kernel.chans

RECURSIVE SumOver(_, _)
\* The sum of f over the finite set S.
SumOver(f, S) ==
    IF S = {} THEN 0
    ELSE LET x == CHOOSE y \in S : TRUE IN f[x] + SumOver(f, S \ {x})

\* Sum over a in [0, k.rows), b in [0, k.cols) of inp[i+a, j+b, c] * k[a, b, c]
CrossCorrelation(inp, k, i, j, c) ==
    LET S == (0 .. k.rows - 1) \X (0 .. k.cols - 1)
    IN  SumOver([ab \in S |-> inp.data[<<i + ab[1], j + ab[2], c>>]
                                * k.data[<<ab[1], ab[2], c>>]], S)

\* The top-left positions at which a k-sized window lies inside inp.
FitPositions(inp, k) ==
    { p \in (0 .. inp.rows - 1) \X (0 .. inp.cols - 1) :
        p[1] + k.rows <= inp.rows /\ p[2] + k.cols <= inp.cols }

\* offset o is the centre the specification gives an axis of n cells
IsCentreOf(o, n) ==
    /\ o = (n \div 2) - (IF n % 2 = 0 THEN 1 ELSE 0)
    /\ o >= 0
    /\ 2 * o < n
    /\ (n % 2 = 1 => 2 * o + 1 = n)
    /\ (n % 2 = 0 => 2 * o + 2 = n)
    /\ (n = 2 => o = 0)
    /\ (n = 3 => o = 1)
    /\ (n = 4 => o = 1)

\* The output extents the specification computes, as mathematical integers.
ExtentRows == pre.rows - 2 * kernel_centre(kernel.rows, kernel.cols)[1]
ExtentCols == pre.cols - 2 * kernel_centre(kernel.rows, kernel.cols)[2]

(***************************************************************************)
(* Properties.                                                             *)
(***************************************************************************)
\* C1: whenever conv2d returns Ok, for every top-left position (i, j) at
\* which the kernel fits inside the input and every channel c, the output at
\* (i, j, c) is the sum over the kernel's rows and columns of
\* input[i+a, j+b, c] * kernel[a, b, c] (kernel not flipped, no mixing of
\* channels); on the 5x5 example with the 3x3 kernel the output is
\* [4,3,4], [2,4,3], [2,3,4].
C1_WindowSums ==
    (Returned("conv2d") /\ ret.kind = "Ok") =>
        /\ \A p \in FitPositions(pre, kernel) : \A c \in 0 .. pre.chans - 1 :
              /\ <<p[1], p[2], c>> \in DOMAIN ret.vol.data
              /\ ret.vol.data[<<p[1], p[2], c>>]
                    = CrossCorrelation(pre, kernel, p[1], p[2], c)
        /\ (pre = ExampleInput /\ kernel = ExampleKernel) => ret.vol = ExampleOutput

C1_Witness ==
    /\ Returned("conv2d")
    /\ pre = ExampleInput
    /\ kernel = ExampleKernel
    /\ ret.kind = "Ok"
    /\ ret.vol = ExampleOutput

\* C2: with equal channel counts and both computed extents positive, conv2d
\* returns Ok with a volume of shape (rows - 2*ro, cols - 2*co, channels),
\* (ro, co) being the kernel centre, for odd, even and unequal kernel extents.
C2_OutputShape ==
    (Returned("conv2d") /\ ChannelsMatch /\ ExtentRows > 0 /\ ExtentCols > 0) =>
        /\ ret.kind = "Ok"
        /\ ret.vol.rows = ExtentRows
        /\ ret.vol.cols = ExtentCols
        /\ ret.vol.chans = pre.chans
        /\ DOMAIN ret.vol.data = Cells(ExtentRows, ExtentCols, pre.chans)

C2_Witness ==
    /\ Returned("conv2d")
    /\ ret.kind = "Ok"
    /\ kernel.rows = 4
    /\ kernel.cols = 1
    /\ ret.vol.rows = pre.rows - 2
    /\ ret.vol.cols = pre.cols

\* C3: when the channel counts differ, conv2d and conv2d_inplace both return
\* ChannelDimensionMismatch, whatever the spatial extents are.
C3_ChannelMismatch ==
    (pc = "returned" /\ ~ChannelsMatch) => ret.kind = "ChannelDimensionMismatch"

C3_Witness ==
    /\ Returned("conv2d_inplace")
    /\ ~ChannelsMatch
    /\ ExtentRows <= 0
    /\ ret.kind = "ChannelDimensionMismatch"

\* C4: with equal channel counts, whenever a computed output extent is zero
\* or negative, both operations return InvalidDimensions.
C4_DegenerateIsInvalidDimensions ==
    (pc = "returned" /\ ChannelsMatch /\ (ExtentRows <= 0 \/ ExtentCols <= 0)) =>
        ret.kind = "InvalidDimensions"

\* C5: after a successful conv2d_inplace the band of the input that starts
\* at the kernel centre and has the size of conv2d's result on the pre-call
\* input holds that result, and every other element keeps its pre-call value.
C5_InplaceBand ==
    (Returned("conv2d_inplace") /\ ret.kind = "Ok") =>
        LET cen == kernel_centre(kernel.rows, kernel.cols)
        IN  /\ input.rows = pre.rows /\ input.cols = pre.cols /\ input.chans = pre.chans
            /\ DOMAIN input.data = DOMAIN pre.data
            /\ \A b \in Builds :
                  LET result == conv2d(pre, kernel, b)
                  IN  /\ result.kind = "Ok"
                      /\ \A x \in DOMAIN input.data :
                            IF /\ cen[1] <= x[1] /\ x[1] < cen[1] + result.vol.rows
                               /\ cen[2] <= x[2] /\ x[2] < cen[2] + result.vol.cols
                            THEN input.data[x]
                                    = result.vol.data[<<x[1] - cen[1], x[2] - cen[2], x[3]>>]
                            ELSE input.data[x] = pre.data[x]
            /\ (pre = ExampleInput /\ kernel = ExampleKernel)
                  => input = ExampleInplaceOutput

C5_Witness ==
    /\ Returned("conv2d_inplace")
    /\ ret.kind = "Ok"
    /\ pre = ExampleInput
    /\ kernel = ExampleKernel
    /\ input = ExampleInplaceOutput
    /\ input # pre

\* C6: whenever conv2d_inplace returns an error, the input is element for
\* element what it was before the call.
C6_ErrorLeavesInput ==
    (Returned("conv2d_inplace")
        /\ ret.kind \in {"ChannelDimensionMismatch", "InvalidDimensions"}) =>
        input = pre

C6_Witness ==
    /\ Returned("conv2d_inplace")
    /\ ret.kind = "InvalidDimensions"
    /\ input = pre
    /\ \E x \in DOMAIN input.data : input.data[x] # 0

\* C7: for kernel extents n >= 1 the centre of each axis is
\* floor(n / 2) - (1 if n is even else 0), independently per axis: the
\* middle for odd n, the lower of the two middles for even n, non-negative
\* and with 2 * offset < n.
C7_KernelCentre ==
    (pc = "returned" /\ ChannelsMatch) =>
        /\ Len(centre) = 2
        /\ IsCentreOf(centre[1], kernel.rows)
        /\ IsCentreOf(centre[2], kernel.cols)

C7_Witness ==
    /\ pc = "returned"
    /\ kernel.rows = 4
    /\ kernel.cols = 1
    /\ centre = <<1, 0>>

\* C8: on every successful conv2d the positions at which the kernel fits
\* are exactly the (row, column) indices of the output, and every output
\* cell is written by a window.
C8_WindowsCoverOutput ==
    (Returned("conv2d") /\ ret.kind = "Ok") =>
        /\ FitPositions(pre, kernel)
              = (0 .. ret.vol.rows - 1) \X (0 .. ret.vol.cols - 1)
        /\ visited = (0 .. ret.vol.rows - 1) \X (0 .. ret.vol.cols - 1)

\* C9: conv2d returns Ok only when the kernel is no larger than the input
\* along either spatial axis, and then the output has rows > 0 and cols > 0.
C9_OkOnlyWhenKernelFits ==
    (Returned("conv2d") /\ ret.kind = "Ok") =>
        /\ kernel.rows <= pre.rows
        /\ kernel.cols <= pre.cols
        /\ ret.vol.rows > 0
        /\ ret.vol.cols > 0

\* C10: after a successful conv2d_inplace every element that was written
\* holds the per-channel multiply-sum of a kernel-sized window that lies
\* inside the pre-call input, the one with its top-left corner at
\* (r - centre_row, c - centre_col).
C10_WrittenAreWindowSums ==
    (Returned("conv2d_inplace") /\ ret.kind = "Ok") =>
        \A d \in written :
            /\ <<d[1] - centre[1], d[2] - centre[2]>> \in FitPositions(pre, kernel)
            /\ input.data[d]
                  = CrossCorrelation(pre, kernel, d[1] - centre[1], d[2] - centre[2], d[3])

====
